---- MODULE Spec2Model ----
(***************************************************************************)
(* A model of the notebook analysis_probe_tone.ipynb: the three code cells *)
(* that (1) build the 24 Krumhansl-Kessler key profiles and their matrix   *)
(* of pairwise Pearson correlations, (2) enumerate the stimulus conditions *)
(* of the experiments from the directory tree, (3) load the response logs. *)
(*                                                                         *)
(* Conventions.  Python lists are sequences; Python index i is TLA+ index  *)
(* i+1.  The ratings of the profiles are decimal numbers with two places   *)
(* and are kept exactly, in hundredths (6.35 is 635).  A correlation is a  *)
(* fixed-point number in thousandths; the undefined result of a division   *)
(* of zero by zero is kept apart from every number (nan).                  *)
(***************************************************************************)
EXTENDS Integers, Sequences, FiniteSets, TLC

VARIABLES
    pc,             \* the position of the cell that is running
    pitch_class,    \* argument of the call profile(pitch_class, mode)
    mode,           \* argument of the call profile(pitch_class, mode)
    ret,            \* what the call profile(pitch_class, mode) returned
    key_ratings,    \* cell 1: the list of profiles that is correlated
    key_distances,  \* cell 1: the matrix of correlations, a list of rows
    tree,           \* cell 2: the stimulus tree on disk
    experiments,    \* cell 2: the list of experiment ids
    done_exps,      \* cell 2: how many experiments the loop has finished
    conditions,     \* cell 2: the list of conditions built by the loop
    manifest,       \* cell 2: the DataFrame made of the list, and its outcome
    data_files,     \* cell 3: the response logs, in the order glob gave them
    frames,         \* cell 3: the list of DataFrames read so far
    data            \* cell 3: the concatenated, projected frame, and its outcome

keyVars  == <<pitch_class, mode, ret, key_ratings, key_distances>>
condVars == <<tree, experiments, done_exps, conditions, manifest>>
dataVars == <<data_files, frames, data>>
vars     == <<pc, keyVars, condVars, dataVars>>

(***************************************************************************)
(* Cell 1: constants                                                       *)
(***************************************************************************)

\* The number of pitch classes: the length of every profile and scale vector.
NPitchClasses == 12

\* KK82 C-major profile, in hundredths.
KK_major == <<635, 223, 348, 233, 438, 409, 252, 519, 239, 366, 229, 288>>

\* KK82 C-minor profile, in hundredths.
KK_minor == <<633, 268, 352, 538, 260, 353, 254, 475, 398, 269, 334, 317>>

\* The scale vectors on c = 0, in hundredths (1 is 100).
dia0 == <<100, 0, 100, 0, 100, 100, 0, 100, 0, 100, 0, 100>>
oct0 == <<100, 100, 0, 100, 100, 0, 100, 100, 0, 100, 100, 0>>
hex0 == <<100, 0, 0, 100, 100, 0, 0, 100, 100, 0, 0, 100>>
chro == <<100, 100, 100, 100, 100, 100, 100, 100, 100, 100, 100, 100>>

modes == <<"major", "minor">>

(***************************************************************************)
(* Python list slicing                                                     *)
(***************************************************************************)

\* The position a slice bound k denotes in a list of length n: a negative
\* bound counts from the end, and every bound is clamped to 0..n.
SliceBound(k, n) ==
    IF k < 0
    THEN (IF k + n < 0 THEN 0 ELSE k + n)
    ELSE (IF k > n THEN n ELSE k)

\* l[k:]
SliceFrom(l, k) ==
    LET b == SliceBound(k, Len(l))
    IN  [i \in 1..(Len(l) - b) |-> l[i + b]]

\* l[:k]
SliceTo(l, k) ==
    LET b == SliceBound(k, Len(l))
    IN  [i \in 1..b |-> l[i]]

\* A rotation to the right, as a slip in the slice bounds would give it.
rotate_right(l, k) == SliceFrom(l, 0 - k) \o SliceTo(l, 0 - k)

\* def rotate(l,k): return l[k:] + l[:k]
rotate(l, k) == SliceFrom(l, k) \o SliceTo(l, k)

\* def profile(pitch_class, mode)
profile(p, m) ==
    IF m = "major"
    THEN rotate(KK_major, p)
    ELSE rotate(KK_minor, p)

(***************************************************************************)
(* Pearson correlation (scipy.stats.pearsonr, first component)             *)
(***************************************************************************)

RECURSIVE SumTo(_, _)
SumTo(s, n) == IF n = 0 THEN 0 ELSE s[n] + SumTo(s, n - 1)

\* The sum of a list of numbers.
Sum(s) == SumTo(s, Len(s))

RECURSIVE Bisect(_, _, _)
Bisect(v, lo, hi) ==
    IF lo = hi
    THEN lo
    ELSE LET mid == (lo + hi + 1) \div 2
         IN  IF mid * mid <= v
             THEN Bisect(v, mid, hi)
             ELSE Bisect(v, lo, mid - 1)

\* The square root, rounded down.
sqrt(v) == Bisect(v, 0, 46340)

\* x - mean(x), times the length of x (which keeps it a whole number).
Centred(x) == [i \in 1..Len(x) |-> Len(x) * x[i] - Sum(x)]

\* The sum of squares of a list.
ss(x) == Sum([i \in 1..Len(x) |-> x[i] * x[i]])

\* The undefined correlation, and a correlation of r thousandths.
nan == [defined |-> FALSE, r |-> 0]
Corr(r) == [defined |-> TRUE, r |-> r]

\* num / den in thousandths, rounded down, within 32-bit whole numbers.
Thousandths(num, den) ==
    IF den < 1000
    THEN (num * 1000) \div den
    ELSE num \div (den \div 1000)

\* A coefficient normalised by the variance of x alone (the slope of the
\* regression of y on x), as a slip in the denominator would give it.
pearsonr_slope(x, y) ==
    LET xm    == Centred(x)
        ym    == Centred(y)
        r_num == Sum([i \in 1..Len(x) |-> xm[i] * ym[i]])
        r_den == sqrt(ss(xm)) * sqrt(ss(xm))
    IN  IF r_den = 0 THEN nan ELSE Corr(Thousandths(r_num, r_den))

\* pearsonr(x, y)[0]: r_num / r_den with r_num = sum(xm*ym) and
\* r_den = sqrt(ss(xm) * ss(ym)); 0/0 is nan and raises nothing.
pearsonr(x, y) ==
    LET xm    == Centred(x)
        ym    == Centred(y)
        r_num == Sum([i \in 1..Len(x) |-> xm[i] * ym[i]])
        r_den == sqrt(ss(xm)) * sqrt(ss(ym))
    IN  IF r_den = 0 THEN nan ELSE Corr(Thousandths(r_num, r_den))

(***************************************************************************)
(* Cell 1: the key profiles and their correlation matrix                   *)
(***************************************************************************)

\* How far beyond 0..11 the argument pitch_class of a call is drawn.
TonicSpan == 13

TonicInputs == (0 - TonicSpan)..(NPitchClasses - 1 + TonicSpan)

ModeInputs == {modes[i] : i \in 1..Len(modes)}

\* The length of the lists of vectors the correlation is tried on.
CorrLen == 3

\* The vectors of the notebook.
Vectors == {KK_major, KK_minor, dia0, oct0, hex0, chro}

NoReturn == [kind |-> "none", value |-> <<>>]
Returned(v) == [kind |-> "value", value |-> v]

\* The comprehension with its two loops exchanged: all major keys first.
key_ratings_by_mode ==
    [n \in 1..(NPitchClasses * Len(modes)) |->
        profile((n - 1) % NPitchClasses, modes[((n - 1) \div NPitchClasses) + 1])]

\* [profile(i, m) for i in range(12) for m in modes]
key_ratings_list ==
    [n \in 1..(NPitchClasses * Len(modes)) |->
        profile((n - 1) \div Len(modes), modes[((n - 1) % Len(modes)) + 1])]

\* [[pearsonr(key1, key2)[0] for key1 in ks] for key2 in ks]
key_distances_of(ks) ==
    [row \in 1..Len(ks) |-> [col \in 1..Len(ks) |-> pearsonr(ks[col], ks[row])]]

\* A call profile(pitch_class, mode); no path of profile or rotate raises.
CallProfile ==
    /\ pc = "call"
    /\ ret' = Returned(profile(pitch_class, mode))
    /\ pc' = "key_ratings"
    /\ UNCHANGED <<pitch_class, mode, key_ratings, key_distances>>
    /\ UNCHANGED <<condVars, dataVars>>

\* key_ratings = [...]
KeyRatings ==
    /\ pc = "key_ratings"
    /\ key_ratings' = key_ratings_list
    /\ pc' = "key_distances"
    /\ UNCHANGED <<pitch_class, mode, ret, key_distances>>
    /\ UNCHANGED <<condVars, dataVars>>

\* key_distances = DataFrame([[...]]), and its export
KeyDistances ==
    /\ pc = "key_distances"
    /\ key_distances' = key_distances_of(key_ratings)
    /\ pc' = "done"
    /\ UNCHANGED <<pitch_class, mode, ret, key_ratings>>
    /\ UNCHANGED <<condVars, dataVars>>

(***************************************************************************)
(* Cell 2: the conditions of the experiments                               *)
(***************************************************************************)

ExperimentIds == {"exp1", "exp2a", "exp2b"}

\* The file names a contexts/ and a targets/ directory may hold, each list
\* in the order of the names as strings.
ContextNames == <<"a.wav", "b.wav">>
TargetNames  == <<"x.wav", "y.wav">>

Range(s) == {s[i] : i \in 1..Len(s)}

\* The lists without repetition of the members of S.
Perms(S) ==
    {s \in [1..Cardinality(S) -> S] : \A i, j \in 1..Cardinality(S) : s[i] = s[j] => i = j}

\* A directory: missing, or holding a set of the names.
Dirs(names) ==
    {[exists |-> FALSE, files |-> {}]}
        \cup {[exists |-> TRUE, files |-> S] : S \in SUBSET Range(names)}

\* "sounds/" + experiment + "/" + sub + "/" + name
Path(experiment, sub, name) == <<"sounds", experiment, sub, name>>

\* glob.glob("sounds/" + experiment + "/" + sub + "/*.wav"): the paths of the
\* directory in whatever order the filesystem lists them, none when the
\* directory is missing.
glob(experiment, sub) ==
    LET d == IF sub = "contexts" THEN tree[experiment].contexts ELSE tree[experiment].targets
    IN  Perms({Path(experiment, sub, n) : n \in d.files})

\* Each context paired with the target at the same position only.
cross_zip(experiment, contexts, targets) ==
    [n \in 1..(IF Len(contexts) < Len(targets) THEN Len(contexts) ELSE Len(targets)) |->
        <<experiment, contexts[n], targets[n]>>]

\* for context in contexts: for target in targets:
\*     conditions.append([str(experiment), str(context), str(target)])
cross(experiment, contexts, targets) ==
    [n \in 1..(Len(contexts) * Len(targets)) |->
        <<experiment,
          contexts[((n - 1) \div Len(targets)) + 1],
          targets[((n - 1) % Len(targets)) + 1]>>]

NoFrame == [status |-> "none", columns |-> <<>>, rows |-> <<>>]

\* DataFrame(np.array(rows)) followed by the assignment of three column
\* names: an empty list gives a frame of one column, and the assignment of
\* three names to it raises ValueError.
DataFrameOf(rows) ==
    IF rows = <<>>
    THEN [status |-> "ValueError", columns |-> <<"0">>, rows |-> <<>>]
    ELSE [status |-> "ok", columns |-> <<"experiment", "contexts", "targets">>, rows |-> rows]

\* One pass of the loop over the experiments.
NextExperiment ==
    /\ pc = "loop"
    /\ done_exps < Len(experiments)
    /\ LET experiment == experiments[done_exps + 1]
       IN  \E contexts \in glob(experiment, "contexts"),
              targets \in glob(experiment, "targets") :
                conditions' = conditions \o cross(experiment, contexts, targets)
    /\ done_exps' = done_exps + 1
    /\ UNCHANGED <<pc, tree, experiments, manifest>>
    /\ UNCHANGED <<keyVars, dataVars>>

\* After the loop: the list becomes the frame that is written out.
MakeManifest ==
    /\ pc = "loop"
    /\ done_exps = Len(experiments)
    /\ manifest' = DataFrameOf(conditions)
    /\ pc' = "done"
    /\ UNCHANGED <<tree, experiments, done_exps, conditions>>
    /\ UNCHANGED <<keyVars, dataVars>>

(***************************************************************************)
(* Cell 3: the response logs                                               *)
(***************************************************************************)

\* The columns the cell selects.
Selected ==
    {"exp_no", "context", "probe", "sld_rating.response", "sld_rating.rt",
     "participant", "date"}

\* The headers a response log may have: the selected columns with one more,
\* the selected columns alone, and headers that lack one selected column.
Headers ==
    {Selected \cup {"trials.thisN"}, Selected,
     Selected \ {"probe"}, Selected \ {"sld_rating.rt"}}

\* The most rows a response log holds, and the most logs there are.
MaxRows == 4
MaxDataFiles == 2

\* A response log on disk: its header and the number of its rows.
Logs == [columns : Headers, nrows : 0..MaxRows]

\* pd.read_csv(the_file): the rows carry the index labels 0, 1, ...; a row
\* is known by the log it is from (its place in data_files) and its label
\* there, and by the columns that hold no value of the log (NaN).
read_csv(f) ==
    [columns |-> data_files[f].columns,
     rows    |-> [k \in 1..data_files[f].nrows |-> [file |-> f, row |-> k - 1, nan |-> {}]]]

\* frame.index[[0,1]] raises IndexError unless the frame has both positions.
IndexTakeRaises(frame, positions) ==
    \E q \in positions : q >= Len(frame.rows)

\* frame.drop(labels): the rows whose label is none of labels.
drop(frame, labels) ==
    [columns |-> frame.columns,
     rows    |-> SelectSeq(frame.rows, LAMBDA r : r.row \notin labels)]

RECURSIVE ConcatRows(_, _)
ConcatRows(fs, n) ==
    IF n = 0 THEN <<>> ELSE ConcatRows(fs, n - 1) \o fs[n].rows

\* pd.concat(fs, axis=0) and reset_index(drop=True): the columns are the
\* union of the frames' columns, the rows follow each other in the order of
\* the frames, and a row holds NaN in every column its frame lacks.
concat(fs) ==
    LET columns == UNION {fs[n].columns : n \in 1..Len(fs)}
        rows    == ConcatRows(fs, Len(fs))
    IN  [columns |-> columns,
         rows    |-> [k \in 1..Len(rows) |->
                        [rows[k] EXCEPT !.nan = columns \ fs[rows[k].file].columns]]]

NoData == [status |-> "none", columns |-> {}, rows |-> <<>>]
Raised(e) == [status |-> e, columns |-> {}, rows |-> <<>>]

\* frame[cols]: KeyError when the frame lacks a column of cols.
select(frame, cols) ==
    IF ~(cols \subseteq frame.columns)
    THEN Raised("KeyError")
    ELSE [status  |-> "ok",
          columns |-> cols,
          rows    |-> [k \in 1..Len(frame.rows) |->
                         [frame.rows[k] EXCEPT !.nan = frame.rows[k].nan \cap cols]]]

\* One pass of the loop over data_files: read, drop the two practice rows,
\* append.  A log of fewer than two rows ends the cell with IndexError.
ReadFile ==
    /\ pc = "read"
    /\ Len(frames) < Len(data_files)
    /\ LET current_file == read_csv(Len(frames) + 1)
       IN  IF IndexTakeRaises(current_file, {0, 1})
           THEN /\ data' = Raised("IndexError")
                /\ pc' = "done"
                /\ UNCHANGED frames
           ELSE /\ frames' = Append(frames, drop(current_file, {0, 1}))
                /\ UNCHANGED <<pc, data>>
    /\ UNCHANGED data_files
    /\ UNCHANGED <<keyVars, condVars>>

\* After the loop: concatenate (ValueError when there is no frame), reset
\* the index and select the columns.
Concatenate ==
    /\ pc = "read"
    /\ Len(frames) = Len(data_files)
    /\ data' = IF frames = <<>>
               THEN Raised("ValueError")
               ELSE select(concat(frames), Selected)
    /\ pc' = "done"
    /\ UNCHANGED <<data_files, frames>>
    /\ UNCHANGED <<keyVars, condVars>>

(***************************************************************************)
(* The specifications: one for each cell, and one for the correlation of   *)
(* lists of the notebook's vectors                                         *)
(***************************************************************************)

KeysIdle ==
    /\ pitch_class = 0
    /\ mode = "major"
    /\ ret = NoReturn
    /\ key_ratings = <<>>
    /\ key_distances = <<>>

CondIdle ==
    /\ tree = <<>>
    /\ experiments = <<>>
    /\ done_exps = 0
    /\ conditions = <<>>
    /\ manifest = NoFrame

DataIdle ==
    /\ data_files = <<>>
    /\ frames = <<>>
    /\ data = NoData

InitKeys ==
    /\ pc = "call"
    /\ pitch_class \in TonicInputs
    /\ mode \in ModeInputs
    /\ ret = NoReturn
    /\ key_ratings = <<>>
    /\ key_distances = <<>>
    /\ CondIdle
    /\ DataIdle

NextKeys == CallProfile \/ KeyRatings \/ KeyDistances

SpecKeys == InitKeys /\ [][NextKeys]_vars

InitCorr ==
    /\ pc = "key_distances"
    /\ pitch_class = 0
    /\ mode = "major"
    /\ ret = NoReturn
    /\ key_ratings \in [1..CorrLen -> Vectors]
    /\ key_distances = <<>>
    /\ CondIdle
    /\ DataIdle

NextCorr == KeyDistances

SpecCorr == InitCorr /\ [][NextCorr]_vars

InitCond ==
    /\ pc = "loop"
    /\ experiments \in UNION {Perms(S) : S \in SUBSET ExperimentIds}
    /\ tree \in [Range(experiments) ->
                    [contexts : Dirs(ContextNames), targets : Dirs(TargetNames)]]
    /\ done_exps = 0
    /\ conditions = <<>>
    /\ manifest = NoFrame
    /\ KeysIdle
    /\ DataIdle

NextCond == NextExperiment \/ MakeManifest

SpecCond == InitCond /\ [][NextCond]_vars

InitData ==
    /\ pc = "read"
    /\ data_files \in UNION {[1..n -> Logs] : n \in 0..MaxDataFiles}
    /\ frames = <<>>
    /\ data = NoData
    /\ KeysIdle
    /\ CondIdle

NextData == ReadFile \/ Concatenate

SpecData == InitData /\ [][NextData]_vars

(***************************************************************************)
(* Properties of cell 1 (SpecKeys, SpecCorr)                               *)
(***************************************************************************)

\* The base vector of a mode.
Base(m) == IF m = "major" THEN KK_major ELSE KK_minor

\* The base vector read from position t on, cyclically.
Rotation(base, t) ==
    [i \in 1..NPitchClasses |-> base[((i - 1 + t) % NPitchClasses) + 1]]

\* The profile the enumeration (tonic 0 major, tonic 0 minor, tonic 1 major,
\* ...) has at position n, counted from 1.
Enumerated(n) ==
    Rotation(IF (n - 1) % 2 = 0 THEN KK_major ELSE KK_minor, (n - 1) \div 2)

\* C1: for every tonic in 0..11 and both modes, profile(tonic, mode) returns
\* a list of 12 values whose value at index i is base[(i + tonic) mod 12],
\* base being KK_major for major and KK_minor for minor.
C1_ProfileIsRotation ==
    (ret.kind = "value" /\ pitch_class \in 0..(NPitchClasses - 1)) =>
        /\ Len(ret.value) = NPitchClasses
        /\ \A i \in 0..(NPitchClasses - 1) :
              ret.value[i + 1] = Base(mode)[((i + pitch_class) % NPitchClasses) + 1]

\* C1, its case: profile(1, 'major') has returned KK_major rotated left by 1.
C1_Witness ==
    /\ ret.kind = "value"
    /\ pitch_class = 1
    /\ mode = "major"
    /\ ret.value = <<223, 348, 233, 438, 409, 252, 519, 239, 366, 229, 288, 635>>

\* C2: key_ratings holds exactly 24 profiles, the one at position 2t being
\* the major and the one at position 2t+1 the minor profile of tonic t, and
\* row r, column c of key_distances is the correlation of the profiles at
\* the positions c and r of that same order.
C2_EnumerationOrder ==
    /\ pc \in {"key_distances", "done"} =>
          /\ Len(key_ratings) = 24
          /\ \A t \in 0..(NPitchClasses - 1) :
                /\ key_ratings[2 * t + 1] = Rotation(KK_major, t)
                /\ key_ratings[2 * t + 2] = Rotation(KK_minor, t)
    /\ pc = "done" =>
          /\ Len(key_distances) = 24
          /\ \A row \in 1..24 :
                /\ Len(key_distances[row]) = 24
                /\ \A col \in 1..24 :
                      key_distances[row][col] = pearsonr(Enumerated(col), Enumerated(row))

\* C2, its case: both lists are built; position 3 (counted from 0) holds the
\* minor profile of tonic 1, and the matrix distinguishes its first columns.
C2_Witness ==
    /\ pc = "done"
    /\ Len(key_ratings) = 24
    /\ key_ratings[4] = <<268, 352, 538, 260, 353, 254, 475, 398, 269, 334, 317, 633>>
    /\ key_distances[1][1].defined
    /\ key_distances[1][2] # key_distances[1][3]

\* C3: the 24x24 matrix key_distances is symmetric.
C3_Symmetric ==
    pc = "done" =>
        /\ Len(key_distances) = 24
        /\ \A i, j \in 1..24 : key_distances[i][j] = key_distances[j][i]

\* C3, its case: the matrix of the 24 profiles is built, and its entries
\* off the diagonal are defined and not all the same.
C3_Witness ==
    /\ pc = "done"
    /\ Len(key_distances) = 24
    /\ \E i, j \in 1..24 :
          /\ i # j
          /\ key_distances[i][j].defined
          /\ key_distances[i][j].r < 0
    /\ \E i, j \in 1..24 :
          /\ i # j
          /\ key_distances[i][j].r > 0

\* C8: a call of profile with a tonic outside 0..11 fails with
\* InvalidArgument and returns no profile.
C8_TonicOutOfRangeFails ==
    (ret.kind # "none" /\ pitch_class \notin 0..(NPitchClasses - 1)) =>
        /\ ret.kind = "InvalidArgument"
        /\ ret.value = <<>>

Files(e, sub) ==
    LET d == IF sub = "contexts" THEN tree[e].contexts ELSE tree[e].targets
    IN  {Path(e, sub, n) : n \in d.files}

\* The paths of a directory, sorted as strings.
SortedFiles(e, sub) ==
    LET d     == IF sub = "contexts" THEN tree[e].contexts ELSE tree[e].targets
        names == IF sub = "contexts" THEN ContextNames ELSE TargetNames
        kept  == SelectSeq(names, LAMBDA n : n \in d.files)
    IN  [k \in 1..Len(kept) |-> Path(e, sub, kept[k])]

\* The experiments the loop has finished.
Finished == {experiments[k] : k \in 1..done_exps}

\* The place of an experiment in the list of ids.
Place(e) == CHOOSE k \in 1..Len(experiments) : experiments[k] = e

\* The positions of the conditions of an experiment.
Block(e) == {k \in 1..Len(conditions) : conditions[k][1] = e}

\* C4: the loop yields, for each experiment, exactly one condition
\* (experiment, context, target) for every pair of a listed context and a
\* listed target of that experiment and no other condition; an experiment
\* has contexts times targets conditions, and the experiments' blocks are in
\* the order of the ids.
C4_CrossProduct ==
    /\ \A k \in 1..Len(conditions) :
          /\ conditions[k][1] \in Finished
          /\ conditions[k][2] \in Files(conditions[k][1], "contexts")
          /\ conditions[k][3] \in Files(conditions[k][1], "targets")
    /\ \A e \in Finished :
          /\ \A c \in Files(e, "contexts"), t \in Files(e, "targets") :
                Cardinality({k \in 1..Len(conditions) : conditions[k] = <<e, c, t>>}) = 1
          /\ Cardinality(Block(e))
                = Cardinality(Files(e, "contexts")) * Cardinality(Files(e, "targets"))
    /\ \A k1, k2 \in 1..Len(conditions) :
          k1 < k2 => Place(conditions[k1][1]) <= Place(conditions[k2][1])
    /\ manifest.status = "ok" => manifest.rows = conditions

\* C4, its case: three experiments are done, one of them with two contexts
\* and two targets, another with conditions of its own, and the manifest is
\* made of the list.
C4_Witness ==
    /\ pc = "done"
    /\ manifest.status = "ok"
    /\ Len(experiments) = 3
    /\ \E e1, e2 \in Finished :
          /\ e1 # e2
          /\ Cardinality(Files(e1, "contexts")) = 2
          /\ Cardinality(Files(e1, "targets")) = 2
          /\ Cardinality(Block(e1)) = 4
          /\ Cardinality(Block(e2)) = 2

\* An experiment one of whose two directories is missing.
LacksDirectory(e) == ~tree[e].contexts.exists \/ ~tree[e].targets.exists

\* C6: a missing contexts/ or targets/ directory raises no failure and
\* gives that experiment no condition, the conditions of the other
\* experiments are as they would be, and the manifest is completed without
\* a failure also when every experiment lacks its directories.
C6_MissingDirectoryNoFailure ==
    (pc = "done" /\ \E e \in Range(experiments) : LacksDirectory(e)) =>
        /\ manifest.status = "ok"
        /\ manifest.rows = conditions
        /\ \A e \in Range(experiments) :
              Cardinality(Block(e))
                = Cardinality(Files(e, "contexts")) * Cardinality(Files(e, "targets"))

RECURSIVE SortedConditions(_)
SortedConditions(n) ==
    IF n = 0
    THEN <<>>
    ELSE SortedConditions(n - 1)
            \o cross(experiments[n],
                     SortedFiles(experiments[n], "contexts"),
                     SortedFiles(experiments[n], "targets"))

\* C9: whatever the order in which the filesystem lists the files, the
\* conditions of each experiment are in sorted-then-crossed order: contexts
\* sorted by path in the outer loop, targets sorted by path in the inner.
C9_SortedThenCrossed ==
    conditions = SortedConditions(done_exps)

(***************************************************************************)
(* Properties of cell 3 (SpecData)                                         *)
(***************************************************************************)

\* The rows that remain of the first n logs: of each log, in the order of the
\* logs, the rows after its two practice rows, as (log, label) pairs.
RECURSIVE RemainingRows(_)
RemainingRows(n) ==
    IF n = 0
    THEN <<>>
    ELSE RemainingRows(n - 1)
            \o [k \in 1..(IF data_files[n].nrows > 2 THEN data_files[n].nrows - 2 ELSE 0) |->
                    <<n, k + 1>>]

\* C5: for every list of logs the load returns the rows of each log after
\* its first two, by position, the logs in the order given and each log's
\* rows in their order, every row with exactly the seven selected columns.
C5_RemainingRowsInOrder ==
    pc = "done" =>
        /\ data.status = "ok"
        /\ data.columns = Selected
        /\ [k \in 1..Len(data.rows) |-> <<data.rows[k].file, data.rows[k].row>>]
              = RemainingRows(Len(data_files))

\* C7: when one of the logs lacks a selected column the load ends in a
\* failure and returns no rows, also when the other logs have the column;
\* so no returned row is a row of a log that lacks a selected column (such
\* a row could only carry the column filled in).
C7_MissingColumnIsFatal ==
    pc = "done" =>
        \A k \in 1..Len(data.rows) :
            Selected \subseteq data_files[data.rows[k].file].columns

====
